---------------------------- MODULE Spec2Model ----------------------------
(***************************************************************************)
(* Model of src/lambda_function.py: a scheduled handler that fetches the   *)
(* IDX stock summary feed over HTTP, normalizes every item into a 29-tuple *)
(* and upserts the batch into the table stock_summary through a database   *)
(* connection that is kept in a module-level global between invocations.   *)
(***************************************************************************)
EXTENDS Integers, Sequences, FiniteSets, TLC

(***************************************************************************)
(* Bounds of the model.                                                    *)
(***************************************************************************)
MaxFeed == 2          \* longest feed (number of items in data['data'])
MaxInvocations == 2   \* invocations of lambda_handler in one process

(***************************************************************************)
(* JSON values.  Every value is a record of the same shape so that values  *)
(* of different JSON types can be compared: tag is one of "absent" (the    *)
(* key is not in the mapping), "null", "num", "str"; strings are sequences *)
(* of one-character strings.                                               *)
(***************************************************************************)
Absent == [tag |-> "absent", n |-> 0, s |-> << >>]
Null   == [tag |-> "null",   n |-> 0, s |-> << >>]
Num(k) == [tag |-> "num",    n |-> k, s |-> << >>]
Str(cs) == [tag |-> "str",   n |-> 0, s |-> cs]

\* Python truthiness of a value, as used by `x or None`.
Truthy(v) ==
    CASE v.tag = "num" -> v.n # 0
      [] v.tag = "str" -> v.s # << >>
      [] OTHER -> FALSE

DigitChars == <<"0", "1", "2", "3", "4", "5", "6", "7", "8", "9">>
IsDigit(c) == \E i \in 1..10 : DigitChars[i] = c
DigitVal(c) == (CHOOSE i \in 1..10 : DigitChars[i] = c) - 1

\* Number of consecutive digit characters of s from position i on.
RECURSIVE DigitRun(_, _)
DigitRun(s, i) ==
    IF i <= Len(s) /\ IsDigit(s[i]) THEN 1 + DigitRun(s, i + 1) ELSE 0

\* Value of the decimal digit string ds.
RECURSIVE ToNat(_)
ToNat(ds) ==
    IF ds = << >> THEN 0
    ELSE 10 * ToNat(SubSeq(ds, 1, Len(ds) - 1)) + DigitVal(ds[Len(ds)])

\* Decimal digits of k, left-padded with zeros to at least w characters.
RECURSIVE Pad(_, _)
Pad(k, w) ==
    IF k < 10 /\ w <= 1 THEN <<DigitChars[k + 1]>>
    ELSE Pad(k \div 10, w - 1) \o <<DigitChars[(k % 10) + 1]>>

IsLeap(y) == (y % 4 = 0 /\ y % 100 # 0) \/ y % 400 = 0
DaysInMonth(y, m) ==
    CASE m \in {4, 6, 9, 11} -> 30
      [] m = 2 -> IF IsLeap(y) THEN 29 ELSE 28
      [] OTHER -> 31

(***************************************************************************)
(* datetime.strptime(s, "%Y-%m-%dT%H:%M:%S").date()                         *)
(* %Y takes exactly four digits, every other directive one or two; the     *)
(* literals between them are not digits, so each field is the maximal run  *)
(* of digits at its place.  The result is [ok, y, m, d]: ok = FALSE stands *)
(* for ValueError.  The time of day is parsed, checked and dropped.        *)
(***************************************************************************)
NoDate == [ok |-> FALSE, y |-> 0, m |-> 0, d |-> 0]

Strptime(s) ==
    LET ny == DigitRun(s, 1)
        pm == ny + 2
        nm == DigitRun(s, pm)
        pd == pm + nm + 1
        nd == DigitRun(s, pd)
        pH == pd + nd + 1
        nH == DigitRun(s, pH)
        pM == pH + nH + 1
        nM == DigitRun(s, pM)
        pS == pM + nM + 1
        nS == DigitRun(s, pS)
        fld(p, k) == ToNat(SubSeq(s, p, p + k - 1))
        shape ==
            /\ ny = 4
            /\ nm \in {1, 2} /\ nd \in {1, 2}
            /\ nH \in {1, 2} /\ nM \in {1, 2} /\ nS \in {1, 2}
            /\ Len(s) = pS + nS - 1
            /\ s[pm - 1] = "-" /\ s[pd - 1] = "-" /\ s[pH - 1] = "T"
            /\ s[pM - 1] = ":" /\ s[pS - 1] = ":"
    IN  IF ~shape THEN NoDate
        ELSE LET y == fld(1, ny)
                 m == fld(pm, nm)
                 d == fld(pd, nd)
                 H == fld(pH, nH)
                 M == fld(pM, nM)
                 S == fld(pS, nS)
             IN  IF /\ y >= 1
                    /\ m \in 1..12
                    /\ d >= 1 /\ d <= DaysInMonth(y, m)
                    /\ H <= 23 /\ M <= 59 /\ S <= 59
                 THEN [ok |-> TRUE, y |-> y, m |-> m, d |-> d]
                 ELSE NoDate

\* date_obj.strftime('%Y-%m-%d') of a date <<y, m, d>>.  %Y is the C
\* library's: glibc, the C library of the Lambda runtimes, writes the year
\* without padding, so a year below 1000 has fewer than four digits.
Strftime(date) ==
    Pad(date[1], 1) \o <<"-">> \o Pad(date[2], 2) \o <<"-">> \o Pad(date[3], 2)

\* str(v) as an f-string renders a JSON value
PyStr(v) ==
    CASE v.tag = "str" -> v.s
      [] v.tag = "num" -> Pad(v.n, 1)
      [] OTHER -> <<"N", "o", "n", "e">>

generate_stock_id(stock_code, date_obj) ==
    PyStr(stock_code) \o <<"_">> \o Strftime(date_obj)


(***************************************************************************)
(* The table stock_summary and the statement insert_query.                 *)
(***************************************************************************)
\* The column list of INSERT INTO stock_summary ( ... ), in order.
InsertCols ==
    <<"id_stock", "stock_code", "date", "stock_name", "remarks", "previous",
      "open_price", "first_trade", "high", "low", "close", "change",
      "volume", "value", "frequency", "index_individual",
      "offer", "offer_volume", "bid", "bid_volume",
      "listed_shares", "tradeable_shares", "weight_for_index",
      "foreign_sell", "foreign_buy", "delisting_date",
      "non_regular_volume", "non_regular_value", "non_regular_frequency">>

\* The columns assigned from EXCLUDED by ON CONFLICT ... DO UPDATE SET.
UpdateSetCols ==
    {"id_stock", "stock_name", "remarks", "previous", "open_price",
     "first_trade", "high", "low", "close", "change", "volume", "value",
     "frequency", "index_individual", "offer", "offer_volume", "bid",
     "bid_volume", "foreign_sell", "foreign_buy"}

\* The conflict target of ON CONFLICT ( ... ).
ConflictCols == {"stock_code", "date"}

AllCols == {InsertCols[i] : i \in 1..Len(InsertCols)} \cup {"updated_at"}

ColIdx(c) == CHOOSE i \in 1..Len(InsertCols) : InsertCols[i] = c

(***************************************************************************)
(* Feed items.  An item is [shape, f]: shape "object" is a JSON mapping    *)
(* whose f gives each key's value (Absent when the key is missing); any    *)
(* other shape is a JSON value that cannot be indexed by a key.            *)
(***************************************************************************)
\* The JSON key each position of the batch_data tuple reads, and how:
\*   "id"     id_stock, derived        "code"   stock_code = item['StockCode']
\*   "date"   date_obj                 "req"    item[key]
\*   "ornone" item.get(key) or None    "num0"   item.get(key, 0)
TupleFields ==
    <<[how |-> "id",     key |-> "StockCode"],
      [how |-> "code",   key |-> "StockCode"],
      [how |-> "date",   key |-> "Date"],
      [how |-> "req",    key |-> "StockName"],
      [how |-> "ornone", key |-> "Remarks"],
      [how |-> "num0",   key |-> "Previous"],
      [how |-> "num0",   key |-> "OpenPrice"],
      [how |-> "num0",   key |-> "FirstTrade"],
      [how |-> "num0",   key |-> "High"],
      [how |-> "num0",   key |-> "Low"],
      [how |-> "num0",   key |-> "Close"],
      [how |-> "num0",   key |-> "Change"],
      [how |-> "num0",   key |-> "Volume"],
      [how |-> "num0",   key |-> "Value"],
      [how |-> "num0",   key |-> "Frequency"],
      [how |-> "num0",   key |-> "IndexIndividual"],
      [how |-> "num0",   key |-> "Offer"],
      [how |-> "num0",   key |-> "OfferVolume"],
      [how |-> "num0",   key |-> "Bid"],
      [how |-> "num0",   key |-> "BidVolume"],
      [how |-> "num0",   key |-> "ListedShares"],
      [how |-> "num0",   key |-> "TradebleShares"],
      [how |-> "num0",   key |-> "WeightForIndex"],
      [how |-> "num0",   key |-> "ForeignSell"],
      [how |-> "num0",   key |-> "ForeignBuy"],
      [how |-> "ornone", key |-> "DelistingDate"],
      [how |-> "num0",   key |-> "NonRegularVolume"],
      [how |-> "num0",   key |-> "NonRegularValue"],
      [how |-> "num0",   key |-> "NonRegularFrequency"]>>

JsonKeys == {TupleFields[i].key : i \in 1..Len(TupleFields)}
NumericKeys == {TupleFields[i].key : i \in {j \in 1..Len(TupleFields) : TupleFields[j].how = "num0"}}

\* item.get(key, default)
ItemGet(item, key, default) ==
    IF item.f[key] = Absent THEN default ELSE item.f[key]

\* Variant without `or None`: item.get(key)
GetOrNull(item, key) == ItemGet(item, key, Null)

\* item.get(key) or None
OrNone(item, key) ==
    LET v == ItemGet(item, key, Null) IN IF Truthy(v) THEN v ELSE Null

\* Variant that derives id_stock from the stock name.
BatchTupleIdFromName(item, date_obj) ==
    LET stock_code == item.f["StockCode"]
    IN  [i \in 1..Len(TupleFields) |->
            LET fd == TupleFields[i]
            IN  CASE fd.how = "id"     -> generate_stock_id(item.f["StockName"], date_obj)
                  [] fd.how = "code"   -> stock_code
                  [] fd.how = "date"   -> date_obj
                  [] fd.how = "req"    -> item.f[fd.key]
                  [] fd.how = "ornone" -> OrNone(item, fd.key)
                  [] fd.how = "num0"   -> ItemGet(item, fd.key, Num(0))]

\* The tuple appended to batch_data for an item whose date parsed.
BatchTuple(item, date_obj) ==
    LET stock_code == item.f["StockCode"]
    IN  [i \in 1..Len(TupleFields) |->
            LET fd == TupleFields[i]
            IN  CASE fd.how = "id"     -> generate_stock_id(stock_code, date_obj)
                  [] fd.how = "code"   -> stock_code
                  [] fd.how = "date"   -> date_obj
                  [] fd.how = "req"    -> item.f[fd.key]
                  [] fd.how = "ornone" -> OrNone(item, fd.key)
                  [] fd.how = "num0"   -> ItemGet(item, fd.key, Num(0))]

(***************************************************************************)
(* One pass of the body of `for item in data['data']`.  The outcome is     *)
(* "ok" (t was appended), "skip" (ValueError or KeyError, caught by the    *)
(* inner except) or "TypeError" (not caught by the inner except).          *)
(***************************************************************************)
NormalizeItem(item) ==
    LET raise(kind) == [outcome |-> kind, t |-> << >>]
        dv == item.f["Date"]
        parsed == Strptime(dv.s)
    IN  CASE item.shape # "object" -> raise("TypeError")   \* item['Date'] on a non-mapping
          [] item.shape = "object" /\ dv = Absent -> raise("skip")      \* KeyError
          [] item.shape = "object" /\ dv # Absent /\ dv.tag # "str" ->
                raise("TypeError")                          \* strptime() argument 1 must be str
          [] OTHER ->
                IF ~parsed.ok THEN raise("skip")            \* ValueError
                ELSE IF item.f["StockCode"] = Absent THEN raise("skip")  \* KeyError
                ELSE IF item.f["StockName"] = Absent THEN raise("skip")  \* KeyError
                ELSE [outcome |-> "ok",
                      t |-> BatchTuple(item, <<parsed.y, parsed.m, parsed.d>>)]

\* Variant of the loop that leaves it at the first skipped item (break for
\* continue).
RECURSIVE NormalizeLoopBreaks(_, _)
NormalizeLoopBreaks(feed, batch) ==
    IF feed = << >> THEN [exc |-> "none", batch |-> batch]
    ELSE LET r == NormalizeItem(Head(feed))
         IN  CASE r.outcome = "ok" -> NormalizeLoopBreaks(Tail(feed), Append(batch, r.t))
               [] r.outcome = "skip" -> [exc |-> "none", batch |-> batch]
               [] OTHER -> [exc |-> r.outcome, batch |-> batch]

\* Variant of the loop that puts each tuple at the front of the batch
\* (insert(0, ...) for append).
RECURSIVE NormalizeLoopPrepends(_, _)
NormalizeLoopPrepends(feed, batch) ==
    IF feed = << >> THEN [exc |-> "none", batch |-> batch]
    ELSE LET r == NormalizeItem(Head(feed))
         IN  CASE r.outcome = "ok" -> NormalizeLoopPrepends(Tail(feed), <<r.t>> \o batch)
               [] r.outcome = "skip" -> NormalizeLoopPrepends(Tail(feed), batch)
               [] OTHER -> [exc |-> r.outcome, batch |-> batch]

\* The loop over data['data']: the batch built, or the exception that ends it.
RECURSIVE NormalizeLoop(_, _)
NormalizeLoop(feed, batch) ==
    IF feed = << >> THEN [exc |-> "none", batch |-> batch]
    ELSE LET r == NormalizeItem(Head(feed))
         IN  CASE r.outcome = "ok" -> NormalizeLoop(Tail(feed), Append(batch, r.t))
               [] r.outcome = "skip" -> NormalizeLoop(Tail(feed), batch)
               [] OTHER -> [exc |-> r.outcome, batch |-> batch]

(***************************************************************************)
(* Rows.  A row gives every column of AllCols a value.  updated_at is a    *)
(* logical time; a freshly inserted row gets the column's default.         *)
(***************************************************************************)
RowKey(t) == <<t[ColIdx("stock_code")], t[ColIdx("date")]>>

InsertedRow(t) ==
    [c \in AllCols |-> IF c = "updated_at" THEN 0 ELSE t[ColIdx(c)]]

\* ON CONFLICT (stock_code, date) DO UPDATE SET ..., updated_at = CURRENT_TIMESTAMP
ConflictUpdate(row, t, now) ==
    [c \in AllCols |->
        IF c \in UpdateSetCols THEN t[ColIdx(c)]
        ELSE IF c = "updated_at" THEN now
        ELSE row[c]]

Conflicts(row, t) == \A c \in ConflictCols : row[c] = t[ColIdx(c)]

\* The effect of one execution of insert_query with parameters t.
Upsert(rows, t, now) ==
    LET hit == {r \in rows : Conflicts(r, t)}
    IN  IF hit = {} THEN rows \cup {InsertedRow(t)}
        ELSE (rows \ hit) \cup {ConflictUpdate(r, t, now) : r \in hit}

\* executemany: one execution per tuple of the batch, in order.
RECURSIVE ApplyAll(_, _, _)
ApplyAll(rows, ts, now) ==
    IF ts = << >> THEN rows
    ELSE ApplyAll(Upsert(rows, Head(ts), now), Tail(ts), now)


(***************************************************************************)
(* Inputs: the items a feed is drawn from.                                 *)
(***************************************************************************)
DateNov25  == <<"2","0","2","5","-","1","1","-","2","5","T","0","0",":","0","0",":","0","0">>
DateNov25b == <<"2","0","2","5","-","1","1","-","2","5","T","1","6",":","3","0",":","0","5">>
DateFeb3   == <<"2","0","2","5","-","2","-","3","T","7",":","0","5",":","0","9">>
DateFeb30  == <<"2","0","2","5","-","0","2","-","3","0","T","0","0",":","0","0",":","0","0">>

\* A mapping with the given required fields, every numeric key num, and the
\* two optional text fields rem and del.
Object(date, code, name, rem, del, num) ==
    [shape |-> "object",
     f |-> [k \in JsonKeys |->
              CASE k = "Date" -> date
                [] k = "StockCode" -> code
                [] k = "StockName" -> name
                [] k = "Remarks" -> rem
                [] k = "DelistingDate" -> del
                [] OTHER -> num]]

CodeA == Str(<<"A">>)
CodeB == Str(<<"B">>)
NameX == Str(<<"X">>)
NameY == Str(<<"Y">>)

ItemA1 == Object(Str(DateNov25), CodeA, NameX, Str(<<"r">>), Absent, Num(1))
ItemA2 == Object(Str(DateNov25b), CodeA, NameY, Str(<< >>), Str(<<"d">>), Num(2))
ItemB  == Object(Str(DateFeb3), CodeB, NameX, Absent, Str(<< >>), Absent)
ItemBadDate  == Object(Str(DateFeb30), CodeA, NameX, Absent, Absent, Num(1))
ItemNoCode   == Object(Str(DateNov25), Absent, NameX, Absent, Absent, Num(1))
ItemNoName   == Object(Str(DateNov25), CodeB, Absent, Absent, Absent, Num(1))
ItemNullDate == Object(Null, CodeA, NameX, Absent, Absent, Num(1))
ItemString   == [shape |-> "string", f |-> [k \in JsonKeys |-> Absent]]

WellFormedItems == {ItemA1, ItemA2, ItemB}
\* malformed in the sense of the inner except: bad date format or a missing required field
MalformedItems == {ItemBadDate, ItemNoCode, ItemNoName}
\* items on which the loop body raises TypeError
IllTypedItems == {ItemNullDate, ItemString}
FeedItems == WellFormedItems \cup MalformedItems \cup IllTypedItems

Feeds == UNION {[1..n -> FeedItems] : n \in 1..MaxFeed}

\* What response.json() gives: kind "invalid" is a body that is not JSON,
\* "notmapping" a JSON value without .get, "missing" a mapping without the
\* key 'data', "null" one whose 'data' is null, "list" one whose 'data' is
\* the list items.
Payload(kind, items) == [kind |-> kind, items |-> items]
NoPayload == Payload("none", << >>)
Payloads ==
    {Payload(k, << >>) : k \in {"invalid", "notmapping", "missing", "null", "list"}}
        \cup {Payload("list", f) : f \in Feeds}

\* HTTP statuses the upstream may answer with
UpstreamStatuses == {200, 304, 404, 503}

(***************************************************************************)
(* Inputs of the normalizer taken alone: well-formed items over more stock *)
(* codes, dates and optional fields than the feeds above.                  *)
(***************************************************************************)
DateYear5 == <<"0","0","0","5","-","0","1","-","0","1","T","0","0",":","0","0",":","0","0">>
CodeA_ == Str(<<"A", "_">>)

\* an item with some numeric keys present and the others missing
ItemSomeNumbers ==
    [ItemB EXCEPT !.f["Volume"] = Num(7), !.f["Close"] = Num(0), !.f["Bid"] = Null]

NormalizerItems ==
    {Object(Str(d), c, NameX, o[1], o[2], o[3]) :
        d \in {DateNov25, DateNov25b, DateFeb3, DateYear5},
        c \in {CodeA, CodeB, CodeA_},
        o \in {<<Str(<<"r">>), Absent, Num(1)>>,
               <<Str(<< >>), Str(<<"d">>), Num(0)>>,
               <<Absent, Str(<< >>), Absent>>}}
        \cup {ItemSomeNumbers}

NormalizerFeeds == UNION {[1..n -> NormalizerItems] : n \in 1..MaxFeed}

(***************************************************************************)
(* State.                                                                  *)
(***************************************************************************)
Procs == {1, 2}     \* invocations that may be in progress in the process

VARIABLES
    conn,            \* the global handle: 0 is None, c > 0 is conns[c]
    conns,           \* every connection object psycopg2.connect has returned
    db,              \* the committed rows of stock_summary
    clock,           \* logical time: the number of invocations started
    pc,              \* where each invocation is
    data,            \* the decoded payload (response.json())
    batch_data,
    inserted_count,
    connection,      \* the local variable connection (0 before it is assigned)
    cursor,          \* "None", "open" or "closed"
    exc,             \* the exception in flight, [kind, at]
    upstream,        \* response.status_code while the response is in use (else 0)
    result,          \* what the invocation gave its caller
    db0,             \* history: db when the invocation began
    acquired,        \* history: the invocation called get_db_connection
    rollback,        \* history: "none", "done" or "raised"
    acquireMisses,   \* history: acquire calls that found conn None or closed
    openFailures,    \* history: psycopg2.connect calls that raised
    serialized       \* the callers of get_db_connection run it one at a time

vars == <<conn, conns, db, clock, pc, data, batch_data, inserted_count,
          connection, cursor, exc, upstream, result, db0, acquired, rollback,
          acquireMisses, openFailures, serialized>>

NoExc == [kind |-> "none", at |-> "none"]
Raise(kind, at) == [kind |-> kind, at |-> at]

NoResult == [how |-> "none", statusCode |-> 0, error |-> "", records_processed |-> 0]
Returned(code, err, n) ==
    [how |-> "returned", statusCode |-> code, error |-> err, records_processed |-> n]
\* an exception left lambda_handler
Raised == [how |-> "raised", statusCode |-> 0, error |-> "", records_processed |-> 0]

NewConnection == [closed |-> FALSE, inTxn |-> FALSE, txTime |-> 0, pending |-> << >>]

Init ==
    /\ conn = 0
    /\ conns = << >>
    /\ db = {}
    /\ clock = 0
    /\ pc = [p \in Procs |-> "idle"]
    /\ data = [p \in Procs |-> NoPayload]
    /\ batch_data = [p \in Procs |-> << >>]
    /\ inserted_count = [p \in Procs |-> 0]
    /\ connection = [p \in Procs |-> 0]
    /\ cursor = [p \in Procs |-> "None"]
    /\ exc = [p \in Procs |-> NoExc]
    /\ upstream = [p \in Procs |-> 0]
    /\ result = [p \in Procs |-> NoResult]
    /\ db0 = [p \in Procs |-> {}]
    /\ acquired = [p \in Procs |-> FALSE]
    /\ rollback = [p \in Procs |-> "none"]
    /\ acquireMisses = 0
    /\ openFailures = 0
    /\ serialized = TRUE


(***************************************************************************)
(* lambda_handler, one action per step.                                    *)
(***************************************************************************)
Goto(p, label) == pc' = [pc EXCEPT ![p] = label]
RaiseAt(p, kind, at) ==
    /\ exc' = [exc EXCEPT ![p] = Raise(kind, at)]
    /\ Goto(p, "except")

\* The platform calls lambda_handler; cursor = None.
Begin(p) ==
    /\ pc[p] = "idle"
    /\ clock < MaxInvocations
    /\ clock' = clock + 1
    /\ db0' = [db0 EXCEPT ![p] = db]
    /\ cursor' = [cursor EXCEPT ![p] = "None"]
    /\ Goto(p, "fetch")
    /\ UNCHANGED <<conn, conns, db, data, batch_data, inserted_count, connection,
                   exc, upstream, result, acquired, rollback, acquireMisses,
                   openFailures, serialized>>

\* Invocations of one process come one after the other; each runs in the
\* first slot.
Invoke(p) ==
    /\ \A q \in Procs : pc[q] = "idle" /\ p <= q
    /\ Begin(p)

\* Variant that raises for server errors only.
RaisesForServerErrors(st) == st >= 500 /\ st < 600

\* response.raise_for_status() raises HTTPError for 4xx and 5xx.
RaisesForStatus(st) == st >= 400 /\ st < 600

\* requests.get(url, headers=headers, timeout=30) times out
FetchTimeout(p) ==
    /\ pc[p] = "fetch"
    /\ RaiseAt(p, "Timeout", "fetch")
    /\ UNCHANGED <<conn, conns, db, clock, data, batch_data, inserted_count,
                   connection, cursor, upstream, result, db0, acquired, rollback,
                   acquireMisses, openFailures, serialized>>

\* requests.get fails in another way (connection error, too many redirects, ...)
FetchFailed(p) ==
    /\ pc[p] = "fetch"
    /\ RaiseAt(p, "RequestException", "fetch")
    /\ UNCHANGED <<conn, conns, db, clock, data, batch_data, inserted_count,
                   connection, cursor, upstream, result, db0, acquired, rollback,
                   acquireMisses, openFailures, serialized>>

\* requests.get returns a response; response.raise_for_status()
FetchResponse(p) ==
    /\ pc[p] = "fetch"
    /\ \E st \in UpstreamStatuses :
        /\ upstream' = [upstream EXCEPT ![p] = st]
        /\ IF RaisesForStatus(st)
           THEN RaiseAt(p, "HTTPError", "fetch")
           ELSE Goto(p, "decode") /\ UNCHANGED exc
    /\ UNCHANGED <<conn, conns, db, clock, data, batch_data, inserted_count,
                   connection, cursor, result, db0, acquired, rollback,
                   acquireMisses, openFailures, serialized>>

\* Variant that tests `'data' not in data` and misses the empty list.
NoDataKeyOnly(payload) == payload.kind \in {"missing", "null"}

\* `not data.get('data')`
NoData(payload) ==
    \/ payload.kind \in {"missing", "null"}
    \/ payload.kind = "list" /\ payload.items = << >>

\* The response is consumed by response.json() and not read again.
\* data = response.json() raises: requests' JSONDecodeError is a
\* RequestException from requests 2.27 on and a plain ValueError before;
\* .get on a payload that is not a mapping raises AttributeError.
DecodeRaises(p) ==
    /\ pc[p] = "decode"
    /\ upstream' = [upstream EXCEPT ![p] = 0]
    /\ \E payload \in Payloads, kind \in {"RequestException", "Other"} :
        /\ payload.kind \in {"invalid", "notmapping"}
        /\ payload.kind = "notmapping" => kind = "Other"
        /\ data' = [data EXCEPT ![p] = payload]
        /\ RaiseAt(p, kind, "decode")
    /\ UNCHANGED <<conn, conns, db, clock, batch_data, inserted_count,
                   connection, cursor, result, db0, acquired, rollback,
                   acquireMisses, openFailures, serialized>>

\* if not data.get('data'): return {'statusCode': 400, ...}
DecodeNoData(p) ==
    /\ pc[p] = "decode"
    /\ upstream' = [upstream EXCEPT ![p] = 0]
    /\ \E payload \in Payloads :
        /\ payload.kind \in {"missing", "null", "list"}
        /\ NoData(payload)
        /\ data' = [data EXCEPT ![p] = payload]
    /\ result' = [result EXCEPT ![p] = Returned(400, "No data received from API", 0)]
    /\ Goto(p, "finally")
    /\ UNCHANGED <<conn, conns, db, clock, batch_data, inserted_count,
                   connection, cursor, exc, db0, acquired, rollback,
                   acquireMisses, openFailures, serialized>>

DecodeData(p) ==
    /\ pc[p] = "decode"
    /\ upstream' = [upstream EXCEPT ![p] = 0]
    /\ \E payload \in Payloads :
        /\ payload.kind \in {"missing", "null", "list"}
        /\ ~NoData(payload)
        /\ data' = [data EXCEPT ![p] = payload]
    /\ Goto(p, "acquire")
    /\ UNCHANGED <<conn, conns, db, clock, batch_data, inserted_count,
                   connection, cursor, exc, result, db0, acquired,
                   rollback, acquireMisses, openFailures, serialized>>

(***************************************************************************)
(* get_db_connection                                                       *)
(***************************************************************************)
\* Variant that connects at every call.
NeedsConnectAlways(c, cs) == TRUE

\* Variant that tests `conn is None` only.
NeedsConnectIfNone(c, cs) == c = 0

\* `conn is None or conn.closed`
NeedsConnect(c, cs) == c = 0 \/ cs[c].closed

\* try: if conn is None or conn.closed: ... else return conn
AcquireCheck(p) ==
    /\ pc[p] = "acquire"
    /\ acquired' = [acquired EXCEPT ![p] = TRUE]
    /\ acquireMisses' =
          IF conn = 0 \/ conns[conn].closed THEN acquireMisses + 1 ELSE acquireMisses
    /\ IF NeedsConnect(conn, conns)
       THEN Goto(p, "connect") /\ UNCHANGED connection
       ELSE Goto(p, "cursor") /\ connection' = [connection EXCEPT ![p] = conn]
    /\ UNCHANGED <<conn, conns, db, clock, data, batch_data, inserted_count,
                   cursor, exc, upstream, result, db0, rollback, openFailures,
                   serialized>>

\* conn = psycopg2.connect(...); return conn
ConnectOk(p) ==
    /\ pc[p] = "connect"
    /\ conns' = Append(conns, NewConnection)
    /\ conn' = Len(conns) + 1
    /\ connection' = [connection EXCEPT ![p] = conn']
    /\ Goto(p, "cursor")
    /\ UNCHANGED <<db, clock, data, batch_data, inserted_count, cursor, exc,
                   upstream, result, db0, acquired, rollback, acquireMisses,
                   openFailures, serialized>>

\* Variant of the except clause that raises without clearing conn.
ConnectRaisesKeepsHandle(p) ==
    /\ pc[p] = "connect"
    /\ openFailures' = openFailures + 1
    /\ \E kind \in {"DatabaseError", "Other"} : RaiseAt(p, kind, "connect")
    /\ UNCHANGED <<conn, conns, db, clock, data, batch_data, inserted_count,
                   connection, cursor, upstream, result, db0, acquired, rollback,
                   acquireMisses, serialized>>

\* psycopg2.connect raises OperationalError, or os.environ[...] raises
\* KeyError: except Exception: conn = None; raise
ConnectRaises(p) ==
    /\ pc[p] = "connect"
    /\ conn' = 0
    /\ openFailures' = openFailures + 1
    /\ \E kind \in {"DatabaseError", "Other"} : RaiseAt(p, kind, "connect")
    /\ UNCHANGED <<conns, db, clock, data, batch_data, inserted_count, connection,
                   cursor, upstream, result, db0, acquired, rollback, acquireMisses,
                   serialized>>

\* cursor = connection.cursor(): InterfaceError on a closed connection
Cursor(p) ==
    /\ pc[p] = "cursor"
    /\ IF conns[connection[p]].closed
       THEN RaiseAt(p, "Other", "cursor") /\ UNCHANGED cursor
       ELSE /\ cursor' = [cursor EXCEPT ![p] = "open"]
            /\ Goto(p, "normalize")
            /\ UNCHANGED exc
    /\ UNCHANGED <<conn, conns, db, clock, data, batch_data, inserted_count,
                   connection, upstream, result, db0, acquired, rollback,
                   acquireMisses, openFailures, serialized>>

\* Variant that starts inserted_count at the number of items of the feed.
NormalizeCountsFeed(p) ==
    /\ pc[p] = "normalize"
    /\ LET r == NormalizeLoop(data[p].items, << >>)
       IN  /\ batch_data' = [batch_data EXCEPT ![p] = r.batch]
           /\ IF r.exc = "none"
              THEN Goto(p, "execute") /\ UNCHANGED exc
              ELSE RaiseAt(p, "Other", "normalize")
    /\ inserted_count' = [inserted_count EXCEPT ![p] = Len(data[p].items)]
    /\ UNCHANGED <<conn, conns, db, clock, data, connection, cursor, upstream,
                   result, db0, acquired, rollback, acquireMisses, openFailures,
                   serialized>>

\* inserted_count = 0; batch_data = []; for item in data['data']: ...
Normalize(p) ==
    /\ pc[p] = "normalize"
    /\ LET r == NormalizeLoop(data[p].items, << >>)
       IN  /\ batch_data' = [batch_data EXCEPT ![p] = r.batch]
           /\ IF r.exc = "none"
              THEN Goto(p, "execute") /\ UNCHANGED exc
              ELSE RaiseAt(p, "Other", "normalize")
    /\ inserted_count' = [inserted_count EXCEPT ![p] = 0]
    /\ UNCHANGED <<conn, conns, db, clock, data, connection, cursor, upstream,
                   result, db0, acquired, rollback, acquireMisses, openFailures,
                   serialized>>


(***************************************************************************)
(* The connection object.  closed is conn.closed; inTxn is whether the      *)
(* client has begun a transaction that it has neither committed nor rolled *)
(* back; pending are the parameter tuples executed in it.  The server or   *)
(* the network may drop a session at any time: the client learns of it     *)
(* when its next round trip fails (OperationalError), and from then on     *)
(* conn.closed is set and the server has discarded what was pending.       *)
(***************************************************************************)
\* psycopg2 begins a transaction before the first statement
BeginTxn(co, now) ==
    IF co.inTxn THEN co ELSE [co EXCEPT !.inTxn = TRUE, !.txTime = now]

Executed(co, ts, now) ==
    [BeginTxn(co, now) EXCEPT !.pending = co.pending \o ts]

EndTxn(co) == [co EXCEPT !.inTxn = FALSE, !.txTime = 0, !.pending = << >>]

\* a connection the client has found broken: closed, its transaction gone
Lost(co) == [EndTxn(co) EXCEPT !.closed = TRUE]

\* connection.commit(): nothing to do outside a transaction
Committed(rows, co) ==
    IF co.inTxn THEN ApplyAll(rows, co.pending, co.txTime) ELSE rows

\* conn.rollback() raises InterfaceError on a closed connection, does
\* nothing outside a transaction, and raises OperationalError when the
\* ROLLBACK finds the session gone (lost)
RollbackRaises(co, lost) == co.closed \/ (co.inTxn /\ lost)
\* Variant in which a rollback that succeeds discards nothing.
RolledBackKeeps(co, lost) == IF RollbackRaises(co, lost) THEN Lost(co) ELSE co
RolledBack(co, lost) == IF RollbackRaises(co, lost) THEN Lost(co) ELSE EndTxn(co)

\* if batch_data: (false)
ExecuteSkip(p) ==
    /\ pc[p] = "execute"
    /\ batch_data[p] = << >>
    /\ Goto(p, "commit")
    /\ UNCHANGED <<conn, conns, db, clock, data, batch_data, inserted_count,
                   connection, cursor, exc, upstream, result, db0, acquired,
                   rollback, acquireMisses, openFailures, serialized>>

\* cursor.executemany(insert_query, batch_data); inserted_count = len(batch_data)
ExecuteOk(p) ==
    /\ pc[p] = "execute"
    /\ batch_data[p] # << >>
    /\ LET c == connection[p] IN
        /\ ~conns[c].closed
        /\ conns' = [conns EXCEPT ![c] = Executed(@, batch_data[p], clock)]
    /\ inserted_count' = [inserted_count EXCEPT ![p] = Len(batch_data[p])]
    /\ Goto(p, "commit")
    /\ UNCHANGED <<conn, db, clock, data, batch_data, connection, cursor, exc,
                   upstream, result, db0, acquired, rollback, acquireMisses,
                   openFailures, serialized>>

\* executemany raises a DatabaseError at its k-th tuple (a value that cannot
\* be adapted, a constraint of the table): the tuples before it were executed
ExecuteStatementError(p) ==
    /\ pc[p] = "execute"
    /\ batch_data[p] # << >>
    /\ LET c == connection[p] IN
        /\ ~conns[c].closed
        /\ \E k \in 1..Len(batch_data[p]) :
             conns' = [conns EXCEPT
                          ![c] = Executed(@, SubSeq(batch_data[p], 1, k - 1), clock)]
    /\ RaiseAt(p, "DatabaseError", "execute")
    /\ UNCHANGED <<conn, db, clock, data, batch_data, inserted_count, connection,
                   cursor, upstream, result, db0, acquired, rollback,
                   acquireMisses, openFailures, serialized>>

\* executemany finds the session gone: OperationalError, and the client
\* marks the connection closed (InterfaceError if it already was)
ExecuteConnLost(p) ==
    /\ pc[p] = "execute"
    /\ batch_data[p] # << >>
    /\ LET c == connection[p] IN
        /\ conns' = [conns EXCEPT ![c] = Lost(@)]
        /\ RaiseAt(p, IF conns[c].closed THEN "Other" ELSE "DatabaseError", "execute")
    /\ UNCHANGED <<conn, db, clock, data, batch_data, inserted_count, connection,
                   cursor, upstream, result, db0, acquired, rollback,
                   acquireMisses, openFailures, serialized>>

\* connection.commit(); return {'statusCode': 200, ...}
CommitOk(p) ==
    /\ pc[p] = "commit"
    /\ LET c == connection[p] IN
        /\ ~conns[c].closed
        /\ db' = Committed(db, conns[c])
        /\ conns' = [conns EXCEPT ![c] = EndTxn(@)]
    /\ result' = [result EXCEPT ![p] = Returned(200, "", inserted_count[p])]
    /\ Goto(p, "finally")
    /\ UNCHANGED <<conn, clock, data, batch_data, inserted_count, connection,
                   cursor, exc, upstream, db0, acquired, rollback, acquireMisses,
                   openFailures, serialized>>

\* the server refuses the COMMIT: the transaction is over and nothing of it
\* is kept
CommitRefused(p) ==
    /\ pc[p] = "commit"
    /\ LET c == connection[p] IN
        /\ ~conns[c].closed /\ conns[c].inTxn
        /\ conns' = [conns EXCEPT ![c] = EndTxn(@)]
    /\ RaiseAt(p, "DatabaseError", "commit")
    /\ UNCHANGED <<conn, db, clock, data, batch_data, inserted_count, connection,
                   cursor, upstream, result, db0, acquired, rollback,
                   acquireMisses, openFailures, serialized>>

\* the COMMIT finds the session gone
CommitConnLost(p) ==
    /\ pc[p] = "commit"
    /\ LET c == connection[p] IN
        /\ conns[c].closed \/ conns[c].inTxn
        /\ conns' = [conns EXCEPT ![c] = Lost(@)]
        /\ RaiseAt(p, IF conns[c].closed THEN "Other" ELSE "DatabaseError", "commit")
    /\ UNCHANGED <<conn, db, clock, data, batch_data, inserted_count, connection,
                   cursor, upstream, result, db0, acquired, rollback,
                   acquireMisses, openFailures, serialized>>

(***************************************************************************)
(* The except clauses and finally.                                         *)
(***************************************************************************)
\* except requests.exceptions.Timeout
ExceptTimeout(p) ==
    /\ pc[p] = "except"
    /\ exc[p].kind = "Timeout"
    /\ result' = [result EXCEPT ![p] =
          Returned(504, "Request timeout - API took too long to respond", 0)]
    /\ Goto(p, "finally")
    /\ UNCHANGED <<conn, conns, db, clock, data, batch_data, inserted_count,
                   connection, cursor, exc, upstream, db0, acquired, rollback,
                   acquireMisses, openFailures, serialized>>

\* except requests.exceptions.HTTPError as e
ExceptHTTPError(p) ==
    /\ pc[p] = "except"
    /\ exc[p].kind = "HTTPError"
    /\ result' = [result EXCEPT ![p] = Returned(upstream[p], "HTTP Error ", 0)]
    /\ Goto(p, "finally")
    /\ UNCHANGED <<conn, conns, db, clock, data, batch_data, inserted_count,
                   connection, cursor, exc, upstream, db0, acquired, rollback,
                   acquireMisses, openFailures, serialized>>

\* except requests.exceptions.RequestException as e
ExceptRequestException(p) ==
    /\ pc[p] = "except"
    /\ exc[p].kind = "RequestException"
    /\ result' = [result EXCEPT ![p] = Returned(500, "Request failed: ", 0)]
    /\ Goto(p, "finally")
    /\ UNCHANGED <<conn, conns, db, clock, data, batch_data, inserted_count,
                   connection, cursor, exc, upstream, db0, acquired, rollback,
                   acquireMisses, openFailures, serialized>>

\* Variant of the two handlers that returns 500 without conn.rollback().
ReturnWithoutRollback(p, error_msg) ==
    /\ result' = [result EXCEPT ![p] = Returned(500, error_msg, 0)]
    /\ UNCHANGED <<conns, rollback>>

\* if conn: conn.rollback()
\* return {'statusCode': 500, 'body': json.dumps({'error': error_msg})}
\* An exception raised by conn.rollback() leaves the handler.
RollbackAndReturn(p, error_msg) ==
    IF conn = 0
    THEN /\ result' = [result EXCEPT ![p] = Returned(500, error_msg, 0)]
         /\ UNCHANGED <<conns, rollback>>
    ELSE \E lost \in BOOLEAN :
         /\ lost => conns[conn].inTxn /\ ~conns[conn].closed
         /\ conns' = [conns EXCEPT ![conn] = RolledBack(@, lost)]
         /\ IF RollbackRaises(conns[conn], lost)
            THEN /\ rollback' = [rollback EXCEPT ![p] = "raised"]
                 /\ result' = [result EXCEPT ![p] = Raised]
            ELSE /\ rollback' = [rollback EXCEPT ![p] = "done"]
                 /\ result' = [result EXCEPT ![p] = Returned(500, error_msg, 0)]

\* except psycopg2.DatabaseError as e
ExceptDatabaseError(p) ==
    /\ pc[p] = "except"
    /\ exc[p].kind = "DatabaseError"
    /\ RollbackAndReturn(p, "Database error: ")
    /\ Goto(p, "finally")
    /\ UNCHANGED <<conn, db, clock, data, batch_data, inserted_count, connection,
                   cursor, exc, upstream, db0, acquired, acquireMisses,
                   openFailures, serialized>>

\* except Exception as e
ExceptException(p) ==
    /\ pc[p] = "except"
    /\ exc[p].kind = "Other"
    /\ RollbackAndReturn(p, "Unexpected error: ")
    /\ Goto(p, "finally")
    /\ UNCHANGED <<conn, db, clock, data, batch_data, inserted_count, connection,
                   cursor, exc, upstream, db0, acquired, acquireMisses,
                   openFailures, serialized>>

\* Variant without the finally clause: the cursor is left as it is.
FinallyLeavesCursor(p) ==
    /\ pc[p] = "finally"
    /\ Goto(p, "done")
    /\ UNCHANGED <<conn, conns, db, clock, data, batch_data, inserted_count,
                   connection, cursor, exc, upstream, result, db0, acquired,
                   rollback, acquireMisses, openFailures, serialized>>

\* finally: if cursor: cursor.close()
Finally(p) ==
    /\ pc[p] = "finally"
    /\ cursor' = [cursor EXCEPT ![p] = IF @ = "open" THEN "closed" ELSE @]
    /\ Goto(p, "done")
    /\ UNCHANGED <<conn, conns, db, clock, data, batch_data, inserted_count,
                   connection, exc, upstream, result, db0, acquired, rollback,
                   acquireMisses, openFailures, serialized>>

\* The platform has the result; the invocation's locals are gone.
Return(p) ==
    /\ pc[p] = "done"
    /\ Goto(p, "idle")
    /\ data' = [data EXCEPT ![p] = NoPayload]
    /\ batch_data' = [batch_data EXCEPT ![p] = << >>]
    /\ inserted_count' = [inserted_count EXCEPT ![p] = 0]
    /\ connection' = [connection EXCEPT ![p] = 0]
    /\ cursor' = [cursor EXCEPT ![p] = "None"]
    /\ exc' = [exc EXCEPT ![p] = NoExc]
    /\ upstream' = [upstream EXCEPT ![p] = 0]
    /\ result' = [result EXCEPT ![p] = NoResult]
    /\ db0' = [db0 EXCEPT ![p] = {}]
    /\ acquired' = [acquired EXCEPT ![p] = FALSE]
    /\ rollback' = [rollback EXCEPT ![p] = "none"]
    /\ UNCHANGED <<conn, conns, db, clock, acquireMisses, openFailures, serialized>>

Step(p) ==
    \/ FetchTimeout(p) \/ FetchFailed(p) \/ FetchResponse(p)
    \/ DecodeRaises(p) \/ DecodeNoData(p) \/ DecodeData(p)
    \/ AcquireCheck(p) \/ ConnectOk(p) \/ ConnectRaises(p)
    \/ Cursor(p) \/ Normalize(p)
    \/ ExecuteSkip(p) \/ ExecuteOk(p) \/ ExecuteStatementError(p) \/ ExecuteConnLost(p)
    \/ CommitOk(p) \/ CommitRefused(p) \/ CommitConnLost(p)
    \/ ExceptTimeout(p) \/ ExceptHTTPError(p) \/ ExceptRequestException(p)
    \/ ExceptDatabaseError(p) \/ ExceptException(p)
    \/ Finally(p) \/ Return(p)

Next ==
    \/ \E p \in Procs : Invoke(p)
    \/ \E p \in Procs : Step(p)

Spec == Init /\ [][Next]_vars


(***************************************************************************)
(* The normalization loop taken alone: an invocation that has fetched a    *)
(* feed and opened its cursor on a fresh connection runs the loop.         *)
(***************************************************************************)
InitNormalize ==
    /\ conn = 1
    /\ conns = <<NewConnection>>
    /\ db = {}
    /\ clock = 1
    /\ pc = [p \in Procs |-> IF p = 1 THEN "normalize" ELSE "idle"]
    /\ \E feed \in NormalizerFeeds :
          data = [p \in Procs |-> IF p = 1 THEN Payload("list", feed) ELSE NoPayload]
    /\ batch_data = [p \in Procs |-> << >>]
    /\ inserted_count = [p \in Procs |-> 0]
    /\ connection = [p \in Procs |-> IF p = 1 THEN 1 ELSE 0]
    /\ cursor = [p \in Procs |-> IF p = 1 THEN "open" ELSE "None"]
    /\ exc = [p \in Procs |-> NoExc]
    /\ upstream = [p \in Procs |-> 0]
    /\ result = [p \in Procs |-> NoResult]
    /\ db0 = [p \in Procs |-> {}]
    /\ acquired = [p \in Procs |-> p = 1]
    /\ rollback = [p \in Procs |-> "none"]
    /\ acquireMisses = 1
    /\ openFailures = 0
    /\ serialized = TRUE

NextNormalize == \E p \in Procs : Normalize(p)

SpecNormalize == InitNormalize /\ [][NextNormalize]_vars

(***************************************************************************)
(* Two invocations in one process at the same time (two threads that call  *)
(* lambda_handler), from the point where each has fetched a feed and is    *)
(* about to call get_db_connection in a process that has no connection     *)
(* yet.  Their steps interleave freely; when serialized holds, a lock      *)
(* outside the code lets one caller at a time run get_db_connection.       *)
(***************************************************************************)
ConcurrentFeeds == {<<ItemA1>>, <<ItemBadDate>>}

InitConcurrent ==
    /\ conn = 0
    /\ conns = << >>
    /\ db = {}
    /\ clock = Cardinality(Procs)
    /\ pc = [p \in Procs |-> "acquire"]
    /\ data \in [Procs -> {Payload("list", f) : f \in ConcurrentFeeds}]
    /\ batch_data = [p \in Procs |-> << >>]
    /\ inserted_count = [p \in Procs |-> 0]
    /\ connection = [p \in Procs |-> 0]
    /\ cursor = [p \in Procs |-> "None"]
    /\ exc = [p \in Procs |-> NoExc]
    /\ upstream = [p \in Procs |-> 0]
    /\ result = [p \in Procs |-> NoResult]
    /\ db0 = [p \in Procs |-> {}]
    /\ acquired = [p \in Procs |-> FALSE]
    /\ rollback = [p \in Procs |-> "none"]
    /\ acquireMisses = 0
    /\ openFailures = 0
    /\ serialized \in BOOLEAN

\* no other caller is between the test of conn and the assignment to it
GetDbConnectionFree(p) == \A q \in Procs \ {p} : pc[q] # "connect"

AcquireCheckConcurrent(p) ==
    /\ serialized => GetDbConnectionFree(p)
    /\ AcquireCheck(p)

StepConcurrent(p) ==
    \/ AcquireCheckConcurrent(p) \/ ConnectOk(p) \/ ConnectRaises(p)
    \/ Cursor(p) \/ Normalize(p)
    \/ ExecuteSkip(p) \/ ExecuteOk(p) \/ ExecuteStatementError(p) \/ ExecuteConnLost(p)
    \/ CommitOk(p) \/ CommitRefused(p) \/ CommitConnLost(p)
    \/ ExceptDatabaseError(p) \/ ExceptException(p)
    \/ Finally(p) \/ Return(p)

NextConcurrent == \E p \in Procs : StepConcurrent(p)

SpecConcurrent == InitConcurrent /\ [][NextConcurrent]_vars

(***************************************************************************)
(* Properties.                                                             *)
(***************************************************************************)
Done(p) == pc[p] = "done"
Succeeded(p) == Done(p) /\ result[p].how = "returned" /\ result[p].statusCode = 200

NonKeyCols == {InsertCols[i] : i \in 1..Len(InsertCols)} \ ConflictCols
SameKey(t, u) == RowKey(t) = RowKey(u)
Stored(t) == {r \in db : Conflicts(r, t)}
\* row r holds the value of t in every column of cols
Holds(r, t, cols) == \A c \in cols : r[c] = t[ColIdx(c)]

\* batch[i] is the last tuple of the batch with its key
LastOfKey(batch, i) == \A j \in (i + 1)..Len(batch) : ~SameKey(batch[j], batch[i])
\* batch[i] meets a row with its key: one stored before the invocation or one
\* written by an earlier tuple of the same batch
OnConflictPath(p, i) ==
    \/ \E r \in db0[p] : Conflicts(r, batch_data[p][i])
    \/ \E j \in 1..(i - 1) : SameKey(batch_data[p][j], batch_data[p][i])

\* C1: after a successful invocation, the row of every tuple that took the
\* conflict path holds that tuple's value in every column of the insert list
\* other than stock_code and date, and its updated_at is the time of the
\* transaction.
C1_ConflictOverwritesEveryColumn ==
    \A p \in Procs : Succeeded(p) =>
        \A i \in 1..Len(batch_data[p]) :
            (LastOfKey(batch_data[p], i) /\ OnConflictPath(p, i)) =>
                /\ Stored(batch_data[p][i]) # {}
                /\ \A r \in Stored(batch_data[p][i]) :
                      /\ Holds(r, batch_data[p][i], NonKeyCols)
                      /\ r["updated_at"] = clock

\* C2: storage never holds two rows with the same (stock_code, date), and
\* when a successful invocation's feed held the same item twice, the one row
\* of its key holds the values of the second submission.
C2_UpsertIdempotent ==
    /\ \A r1, r2 \in db :
          (\A c \in ConflictCols : r1[c] = r2[c]) => r1 = r2
    /\ \A p \in Procs : Succeeded(p) =>
          \A i, j \in 1..Len(batch_data[p]) :
              (i < j /\ batch_data[p][i] = batch_data[p][j]
                     /\ LastOfKey(batch_data[p], j)) =>
                  /\ Cardinality(Stored(batch_data[p][j])) = 1
                  /\ \A r \in Stored(batch_data[p][j]) :
                        Holds(r, batch_data[p][j], NonKeyCols)

\* C3: no exception leaves the normalization loop: whatever its items are,
\* a non-empty feed is never turned into a failure by the loop.
C3_ItemFailuresNeverEscalate ==
    \A p \in Procs : exc[p].at # "normalize"

\* The number of items of a feed that are malformed (bad date format or a
\* missing required field).
Malformed(feed) == Cardinality({i \in 1..Len(feed) : feed[i] \in MalformedItems})
NoneIllTyped(feed) == \A i \in 1..Len(feed) : feed[i] \notin IllTypedItems

\* C4: for a feed of N items of which K are malformed and the others well
\* formed, the batch handed to the write holds N-K tuples, and when nothing
\* fails the response is status 200 with records_processed = N-K.
C4_BatchIsFeedMinusMalformed ==
    \A p \in Procs :
        (data[p].kind = "list" /\ data[p].items # << >> /\ NoneIllTyped(data[p].items)) =>
            LET N == Len(data[p].items)
                K == Malformed(data[p].items)
            IN  /\ pc[p] \in {"execute", "commit"} => Len(batch_data[p]) = N - K
                /\ (Done(p) /\ exc[p] = NoExc) =>
                      /\ Len(batch_data[p]) = N - K
                      /\ result[p] = Returned(200, "", N - K)

\* a successful invocation whose feed mixed malformed and well-formed items
C4_Witness ==
    \E p \in Procs :
        /\ Succeeded(p)
        /\ Malformed(data[p].items) >= 1
        /\ result[p].records_processed >= 1
        /\ Len(data[p].items) = Malformed(data[p].items) + result[p].records_processed

\* C5: when an invocation ends with status 200, storage is what it was when
\* the invocation began with every tuple of the batch applied, in order;
\* when it ends in any other way, storage is what it was when it began.
C5_BatchIsAtomic ==
    \A p \in Procs : Done(p) =>
        IF result[p].how = "returned" /\ result[p].statusCode = 200
        THEN db = ApplyAll(db0[p], batch_data[p], clock)
        ELSE db = db0[p]

\* an invocation that failed in executemany after part of its batch had been
\* executed, and one that committed a batch
C5_Witness ==
    \E p \in Procs :
        /\ Done(p)
        /\ exc[p] = Raise("DatabaseError", "execute")
        /\ Len(batch_data[p]) >= 2
        /\ rollback[p] = "done"
        /\ db0[p] # {}

\* C6: every invocation ends by returning a result with a status code.
C6_AlwaysReturnsResult ==
    \A p \in Procs : Done(p) => result[p].how = "returned" /\ result[p].statusCode # 0

\* C7: a DatabaseError of connect, execute or commit ends in a rollback of
\* the shared connection when the handle exists and in the response 500
\* "Database error: ...".
C7_DatabaseFailureRollsBackAnd500 ==
    \A p \in Procs : (Done(p) /\ exc[p].kind = "DatabaseError") =>
        /\ result[p] = Returned(500, "Database error: ", 0)
        /\ conn # 0 => rollback[p] = "done"

\* what holds of an invocation that failed in the fetch stage
FetchFailureIsTerminal(p) ==
    /\ ~acquired[p] /\ connection[p] = 0
    /\ db = db0[p]
    /\ pc[p] \in {"except", "finally", "done"}
    /\ Done(p) =>
          /\ result[p].how = "returned"
          /\ exc[p].kind = "Timeout" => result[p].statusCode = 504
          /\ exc[p].kind = "HTTPError" => result[p].statusCode = upstream[p]
          /\ exc[p].kind = "RequestException" => result[p].statusCode = 500

\* C8 as stated: a timeout gives 504, every response whose status is not 2xx
\* gives that status, another transport failure gives 500, and none of them
\* acquires a connection or writes a row.
C8_NonSuccessStatusMirrored ==
    \A p \in Procs :
        /\ exc[p].at = "fetch" => FetchFailureIsTerminal(p)
        /\ (upstream[p] # 0 /\ upstream[p] \notin 200..299) =>
              exc[p] = Raise("HTTPError", "fetch")

\* C8 amended: a timeout gives 504, every 4xx or 5xx response gives its own
\* status, another transport failure gives 500, and none of them acquires a
\* connection or writes a row.
C8_ErrorStatusMirrored ==
    \A p \in Procs :
        /\ exc[p].at = "fetch" => FetchFailureIsTerminal(p)
        /\ (upstream[p] >= 400 /\ upstream[p] < 600) =>
              exc[p] = Raise("HTTPError", "fetch")

\* an invocation that answered a 404 of the upstream with 404
C8_Witness ==
    \E p \in Procs :
        /\ Done(p)
        /\ upstream[p] = 404
        /\ result[p] = Returned(404, "HTTP Error ", 0)
        /\ conn # 0

\* C9: a payload without the key 'data' or with an empty 'data' list ends
\* the invocation with 400 "No data received from API", without a call of
\* get_db_connection and with storage as it was.
C9_NoDataIs400 ==
    \A p \in Procs :
        (data[p].kind = "missing" \/ (data[p].kind = "list" /\ data[p].items = << >>)) =>
            /\ pc[p] \in {"finally", "done"}
            /\ result[p] = Returned(400, "No data received from API", 0)
            /\ ~acquired[p] /\ connection[p] = 0 /\ cursor[p] = "None"
            /\ db = db0[p]

\* an invocation that got an empty list while rows were stored
C9_Witness ==
    \E p \in Procs :
        /\ Done(p)
        /\ data[p] = Payload("list", << >>)
        /\ db # {}

\* the write phase uses the shared handle
UsesSharedHandle ==
    \A p \in Procs :
        pc[p] \in {"cursor", "normalize", "execute", "commit"} =>
            connection[p] = conn /\ conn # 0

Connecting == Cardinality({p \in Procs : pc[p] = "connect"})

\* C10 as stated: the number of connections opened is the number of acquire
\* calls that found the handle absent or closed, and the write phase uses
\* the shared handle.
C10_OpenedEqualsMisses ==
    /\ Len(conns) + Connecting = acquireMisses
    /\ UsesSharedHandle

\* C10 amended: the number of connections opened is the number of acquire
\* calls that found the handle absent or closed and whose open did not
\* fail, and the write phase uses the shared handle.
C10_OpenedEqualsMissesThatOpened ==
    /\ Len(conns) + openFailures + Connecting = acquireMisses
    /\ UsesSharedHandle

\* a second invocation that was handed the connection the first had opened
C10_Witness ==
    \E p \in Procs :
        /\ clock = 2
        /\ pc[p] = "cursor"
        /\ Len(conns) = 1
        /\ acquireMisses = 1
        /\ connection[p] = 1

\* what holds of an invocation whose get_db_connection raised
OpenFailureIsTerminal(p) ==
    /\ conn = 0
    /\ connection[p] = 0 /\ cursor[p] = "None"
    /\ db = db0[p]
    /\ \A c \in 1..Len(conns) : ~conns[c].inTxn
    /\ pc[p] \in {"except", "finally", "done"}
    /\ Done(p) =>
          /\ result[p].how = "returned" /\ result[p].statusCode = 500
          /\ result[p].records_processed = 0
          /\ rollback[p] = "none"

\* a call of get_db_connection that finds the handle None goes on to
\* psycopg2.connect
AbsentHandleIsReopened ==
    \A p \in Procs :
        (pc[p] = "acquire" /\ conn = 0 /\ pc'[p] # "acquire") => pc'[p] = "connect"

\* C11: when psycopg2.connect (or the reading of its arguments) raises inside
\* get_db_connection, conn is None from then on, the exception reaches the
\* handlers of lambda_handler, which return status 500 without a rollback
\* and with storage untouched; and the next call of get_db_connection, which
\* finds conn None, calls psycopg2.connect again.
C11_OpenFailureClearsHandle ==
    /\ [](\A p \in Procs : exc[p].at = "connect" => OpenFailureIsTerminal(p))
    /\ [][AbsentHandleIsReopened]_vars

\* a second invocation whose reconnect failed: the closed handle the first
\* left behind has been cleared and the answer is 500
C11_Witness ==
    \E p \in Procs :
        /\ Done(p)
        /\ exc[p].at = "connect"
        /\ clock = 2
        /\ Len(conns) = 1 /\ conns[1].closed
        /\ conn = 0
        /\ result[p].statusCode = 500

\* connection.cursor() was called and returned a cursor
CursorWasOpened(p) ==
    acquired[p] /\ connection[p] # 0 /\ exc[p].at \notin {"connect", "cursor"}

\* C12: an invocation that has ended has no open cursor: the cursor it
\* opened, if it opened one, is closed, whether it ended with status 200,
\* with an error response or with an exception.
C12_CursorAlwaysReleased ==
    \A p \in Procs :
        /\ Done(p) =>
              cursor[p] = IF CursorWasOpened(p) THEN "closed" ELSE "None"
        /\ pc[p] = "idle" => cursor[p] = "None"

\* an invocation that opened a cursor, met a TypeError in the loop and
\* answered 500 with its cursor closed, while rows were stored
C12_Witness ==
    \E p \in Procs :
        /\ Done(p)
        /\ cursor[p] = "closed"
        /\ exc[p] = Raise("Other", "normalize")
        /\ result[p].statusCode = 500
        /\ db # {}

\* the loop of invocation p has run
Normalized(p) == pc[p] = "execute"

IdOf(t) == t[ColIdx("id_stock")]
CodeOf(t) == t[ColIdx("stock_code")]
DateOf(t) == t[ColIdx("date")]

\* a date as four-digit year, two-digit month, two-digit day
YYYYMMDD(date) ==
    Pad(date[1], 4) \o <<"-">> \o Pad(date[2], 2) \o <<"-">> \o Pad(date[3], 2)

\* two tuples of a batch have the same id_stock exactly when they have the
\* same stock_code and the same date
DeriveInjective ==
    \A p \in Procs : Normalized(p) =>
        \A i, j \in 1..Len(batch_data[p]) :
            LET t == batch_data[p][i]
                u == batch_data[p][j]
            IN  IdOf(t) = IdOf(u) <=> (CodeOf(t) = CodeOf(u) /\ DateOf(t) = DateOf(u))

\* C13: the id_stock of two tuples is the same exactly when their stock_code
\* and their date are, and the id_stock of a tuple is its stock_code, an
\* underscore and its date as YYYY-MM-DD.
C13_DeriveInjectiveYYYYMMDD ==
    /\ DeriveInjective
    /\ \A p \in Procs : Normalized(p) =>
          \A i \in 1..Len(batch_data[p]) :
              LET t == batch_data[p][i]
              IN  IdOf(t) = CodeOf(t).s \o <<"_">> \o YYYYMMDD(DateOf(t))

\* the positions of the batch tuple that are read with a default or with
\* `or None`
NumericPositions == {i \in 1..Len(TupleFields) : TupleFields[i].how = "num0"}
OptionalTextPositions == {i \in 1..Len(TupleFields) : TupleFields[i].how = "ornone"}

\* the tuple t emitted for item follows the default policy
DefaultPolicy(item, t) ==
    /\ \A i \in NumericPositions :
          LET v == item.f[TupleFields[i].key]
          IN  t[i] = IF v = Absent THEN Num(0) ELSE v
    /\ \A i \in OptionalTextPositions :
          LET v == item.f[TupleFields[i].key]
          IN  t[i] = IF v = Absent \/ v = Str(<< >>) THEN Null ELSE v
    /\ t[ColIdx("stock_code")] = item.f["StockCode"]
    /\ t[ColIdx("stock_name")] = item.f["StockName"]

\* C14: in the tuple of a well-formed item every numeric field missing from
\* the item is 0, remarks and delisting_date are null when the item has them
\* missing or empty, and every field the item has (and, for those two, has
\* non-empty) is the item's value.
C14_NormalizerDefaults ==
    \A p \in Procs : Normalized(p) =>
        /\ Len(batch_data[p]) = Len(data[p].items)
        /\ \A i \in 1..Len(batch_data[p]) :
              DefaultPolicy(data[p].items[i], batch_data[p][i])

\* a batch made from an item with numeric fields missing, Remarks missing
\* and DelistingDate empty, and from an item with Remarks empty and the
\* other fields present
C14_Witness ==
    \E p \in Procs :
        /\ Normalized(p)
        /\ Len(batch_data[p]) = 2
        /\ data[p].items[1] = ItemSomeNumbers
        /\ batch_data[p][1][ColIdx("previous")] = Num(0)
        /\ batch_data[p][1][ColIdx("volume")] = Num(7)
        /\ batch_data[p][1][ColIdx("remarks")] = Null
        /\ batch_data[p][1][ColIdx("delisting_date")] = Null
        /\ data[p].items[2].f["Remarks"] = Str(<< >>)
        /\ batch_data[p][2][ColIdx("remarks")] = Null
        /\ batch_data[p][2][ColIdx("delisting_date")] = Str(<<"d">>)

\* the feed of invocation p is not empty and every item of it is malformed
AllMalformed(p) ==
    /\ data[p].kind = "list" /\ data[p].items # << >>
    /\ Malformed(data[p].items) = Len(data[p].items)

\* C15: an invocation whose feed is not empty and whose items are all
\* skipped builds an empty batch, executes no statement (its connection
\* never has a transaction), leaves storage as it was and, once the loop
\* has run, ends with status 200 and records_processed = 0.
C15_EmptyBatchSkipsWrite ==
    \A p \in Procs : AllMalformed(p) =>
        /\ batch_data[p] = << >>
        /\ db = db0[p]
        /\ connection[p] # 0 =>
              ~conns[connection[p]].inTxn /\ conns[connection[p]].pending = << >>
        /\ pc[p] = "except" => exc[p].at = "connect"
        /\ (Done(p) /\ CursorWasOpened(p)) => result[p] = Returned(200, "", 0)

\* a second invocation that skipped both items of its feed and answered 200
\* with records_processed = 0 while rows were stored
C15_Witness ==
    \E p \in Procs :
        /\ Done(p)
        /\ AllMalformed(p)
        /\ Len(data[p].items) = 2
        /\ result[p] = Returned(200, "", 0)
        /\ cursor[p] = "closed"
        /\ db # {}

\* the items of a feed that are not skipped, in the order of the feed
Kept(feed) == SelectSeq(feed, LAMBDA item : NormalizeItem(item).outcome = "ok")

\* C16: the batch handed to executemany holds the tuples of the items that
\* were not skipped in the order of the feed, and after a successful
\* invocation whose batch holds several tuples of one (stock_code, date),
\* the row of that key holds the values of the last of them in every column
\* the conflict update assigns.
C16_BatchKeepsFeedOrder ==
    \A p \in Procs :
        /\ Normalized(p) =>
              LET kept == Kept(data[p].items)
              IN  /\ Len(batch_data[p]) = Len(kept)
                  /\ \A i \in 1..Len(kept) :
                        batch_data[p][i] = NormalizeItem(kept[i]).t
        /\ Succeeded(p) =>
              \A i, j \in 1..Len(batch_data[p]) :
                  (i < j /\ SameKey(batch_data[p][i], batch_data[p][j])
                         /\ LastOfKey(batch_data[p], j)) =>
                      /\ Cardinality(Stored(batch_data[p][j])) = 1
                      /\ \A r \in Stored(batch_data[p][j]) :
                            Holds(r, batch_data[p][j], UpdateSetCols)

\* a successful invocation whose feed held two items of one key with
\* different values, the row holding the name and the volume of the second
C16_Witness ==
    \E p \in Procs :
        /\ Succeeded(p)
        /\ data[p].items = <<ItemA2, ItemA1>>
        /\ Len(batch_data[p]) = 2
        /\ \A r \in Stored(batch_data[p][2]) :
              r["stock_name"] = NameX /\ r["volume"] = Num(1)
        /\ Stored(batch_data[p][2]) # {}

\* a connection that was opened, is not closed and is not the one conn
\* refers to
Orphaned == \E c \in 1..Len(conns) : c # conn /\ ~conns[c].closed

\* C17: when the callers of get_db_connection are serialized, every
\* connection other than the one conn refers to is closed; when they are
\* not, two callers can both find conn None, both connect, and the second
\* assignment leaves the first connection open and unreferenced.
C17_SerializedAcquireLeavesNoOrphan ==
    serialized => ~Orphaned

\* two callers that were not serialized both found conn None and both
\* connected: conn is the second connection and the first is still open, in
\* the hands of the invocation that opened it
C17_Witness ==
    /\ ~serialized
    /\ acquireMisses = 2
    /\ Len(conns) = 2
    /\ conn = 2
    /\ ~conns[1].closed /\ ~conns[2].closed
    /\ \E p, q \in Procs : connection[p] = 1 /\ connection[q] = 2

\* the invocation in progress that has executed statements on connection c
\* and is on its way to commit or in an except clause
WriterOf(c) ==
    {p \in Procs : pc[p] \in {"commit", "except"} /\ connection[p] = c}

\* C18: a connection has uncommitted statements only while the invocation
\* that executed them is between its executemany and its commit or
\* rollback, and they are tuples of that invocation's batch; so an
\* invocation that has returned a response has left none, and none is there
\* when the next invocation begins, executes and commits.
C18_NoUncommittedWritesLeft ==
    /\ \A c \in 1..Len(conns) :
          (conns[c].inTxn \/ conns[c].pending # << >>) =>
              \E p \in WriterOf(c) :
                  /\ Len(conns[c].pending) <= Len(batch_data[p])
                  /\ conns[c].pending = SubSeq(batch_data[p], 1, Len(conns[c].pending))
    /\ \A p \in Procs : (Done(p) /\ result[p].how = "returned") =>
          \A c \in 1..Len(conns) : ~conns[c].inTxn /\ conns[c].pending = << >>

\* an invocation whose executemany failed at its second tuple, after the
\* first had been executed, and that rolled back and answered 500; the
\* connection stays open for the next invocation
C18_Witness ==
    \E p \in Procs :
        /\ Done(p)
        /\ exc[p] = Raise("DatabaseError", "execute")
        /\ Len(batch_data[p]) = 2
        /\ rollback[p] = "done"
        /\ result[p] = Returned(500, "Database error: ", 0)
        /\ conn # 0 /\ ~conns[conn].closed /\ ~conns[conn].inTxn
        /\ clock = 1

\* C19: every stored row has the id_stock that generate_stock_id gives for
\* the row's own stock_code and date, whether the row was inserted or went
\* through the conflict update; so has every tuple executed and not yet
\* committed.
C19_IdStockMatchesKey ==
    /\ \A r \in db :
          r["id_stock"] = generate_stock_id(r["stock_code"], r["date"])
    /\ \A c \in 1..Len(conns) : \A i \in 1..Len(conns[c].pending) :
          LET t == conns[c].pending[i]
          IN  IdOf(t) = generate_stock_id(CodeOf(t), DateOf(t))

\* storage after two invocations: a row that the second invocation updated
\* on conflict, with the id of its key, beside an inserted row of another key
C19_Witness ==
    \E r, q \in db :
        /\ r["updated_at"] = 2
        /\ r["stock_code"] = CodeA /\ r["date"] = <<2025, 11, 25>>
        /\ r["id_stock"] = <<"A", "_", "2", "0", "2", "5", "-", "1", "1", "-", "2", "5">>
        /\ r["stock_name"] = NameY
        /\ q["updated_at"] = 0
        /\ q["id_stock"] = <<"B", "_", "2", "0", "2", "5", "-", "0", "2", "-", "0", "3">>

============================================================================
